---- MODULE Spec2Model ----
(***************************************************************************)
(* Model of the user controller of tricycle-app/extended                   *)
(* (backend/controllers/user.js, routed by backend/routes/user.js).        *)
(*                                                                         *)
(* The state is the users collection of the document store, the wall       *)
(* clock read by `new Date()`, the update commands of addProductInHistory  *)
(* that were issued but not yet applied by the store, the position of one  *)
(* getStatsAndLastProduct request between its two aggregate calls, the     *)
(* session of one client with its user_sid cookie, and the response sent   *)
(* in the last step (with what the answered request met, for reference).   *)
(*                                                                         *)
(*   users    the users collection: id -> document                         *)
(*   now      the value `new Date()` gives                                 *)
(*   addq     updates of addProductInHistory sent and not yet applied      *)
(*   nadds    number of addProductInHistory requests so far                *)
(*   stats    the getStatsAndLastProduct request between its aggregates    *)
(*   session  req.session of the client                                    *)
(*   cookie   whether the client holds the user_sid cookie                 *)
(*   resp     the response sent in the last step, NoResp when none was     *)
(*   uncaught whether an exception escaped a handler (the process ended)   *)
(*                                                                         *)
(* A user document keeps the fields the handlers read or write by name:    *)
(* mail, password, roles, number_scan and history.                         *)
(***************************************************************************)
EXTENDS Integers, Sequences, FiniteSets, TLC

VARIABLES users, now, addq, nadds, stats, session, cookie, resp, uncaught

vars == <<users, now, addq, nadds, stats, session, cookie, resp, uncaught>>

-----------------------------------------------------------------------------
(* Bounds of the model.                                                    *)

\* Days the clock runs over.
NumDays == 2
\* Number of addProductInHistory requests a behaviour holds.
MaxAdds == 2

-----------------------------------------------------------------------------
(* Identifiers and documents.                                              *)

UserIds == {"u1", "u2"}
\* a well-formed ObjectId that names no user, and a string that is no ObjectId
GhostId == "g0"
BadId == "bad"
ReqIds == UserIds \cup {GhostId, BadId}

ProductColl == {"p1"}
BodyProductIds == ProductColl \cup {BadId}

Passwords == {"pw1", "pw2"}
NoPassword == "undefined"

\* bcrypt: the stored value is a hash of the password, never the password.
Hash(pw) == "hash:" \o pw

MailOf(id) == id \o "@x"
Mails == {MailOf(id) : id \in UserIds} \cup {"nobody@x"}

InitDoc(id) ==
  [mail |-> MailOf(id),
   password |-> Hash(IF id = "u1" THEN "pw1" ELSE "pw2"),
   roles |-> IF id = "u1" THEN {"admin"} ELSE {"user"},
   number_scan |-> 0,
   history |-> << >>]

\* mongoose.Types.ObjectId(s) throws on a string that is no ObjectId
ObjectIdThrows(s) == s = BadId

ScanEvent(product, date) == [product |-> product, date_scan |-> date, owner |-> FALSE]

HistoryOf(id) == IF id \in DOMAIN users THEN users[id].history ELSE << >>

NoResp == [op |-> "none", req |-> [id |-> ""], status |-> 0, body |-> << >>]
StoreError == [error |-> "StoreError"]
CastError == [error |-> "CastError"]
\* a handler that throws synchronously is answered by Express's error handler
ExpressError == [error |-> "Uncaught"]

IdleStats == [pc |-> "idle", id |-> "", r1 |-> << >>, h1 |-> << >>, n1 |-> 0]

NoSessionUser == [userId |-> "", mail |-> "", roles |-> {}]

-----------------------------------------------------------------------------
(* The clock.                                                              *)

\* An instant is a number of milliseconds since the local midnight of
\* day 0, as the value of a Date is.
MsPerSec == 1000
DayMs == 24 * 60 * 60 * MsPerSec

\* Date.prototype.setHours(h, m, s) with no milliseconds argument: hour,
\* minute and second are replaced, the milliseconds of the instant are kept.
SetHours(t, h, m, s) ==
  (t - (t % DayMs)) + ((h * 60 + m) * 60 + s) * MsPerSec + (t % MsPerSec)

DayOf(t) == t \div DayMs
DayStart(t) == t - (t % DayMs)
\* 23:59:59.999 of the day of t
DayEnd(t) == DayStart(t) + DayMs - 1

\* The instants of a day the clock is read at: 00:00:00.000, 00:00:00.001
\* and 23:59:59.999.
Instants ==
  {day * DayMs + off : day \in 0..(NumDays - 1), off \in {0, 1, DayMs - 1}}

Later(t) == {u \in Instants : u > t}
NextInstant(t) == CHOOSE u \in Later(t) : \A v \in Later(t) : u <= v

Tick ==
  /\ Later(now) # {}
  /\ now' = NextInstant(now)
  /\ resp' = NoResp
  /\ UNCHANGED <<users, addq, nadds, stats, session, cookie, uncaught>>

-----------------------------------------------------------------------------
(* addProductInHistory                                                     *)

\* the update without its $inc
PushOnly(doc, ev) == [doc EXCEPT !.history = Append(@, ev)]

\* { $push: { history: ev }, $inc: { number_scan: 1 } } on one document
PushAndInc(doc, ev) ==
  [doc EXCEPT !.history = Append(@, ev), !.number_scan = @ + 1]

\* The handler up to the updateOne call: the product id is converted, the
\* date is read, the filter is cast, the command leaves for the store.
\* Commands in flight are told apart by their content: a request that
\* would send a command equal to one in flight waits for it to be applied.
AddReq(id, pid) ==
  /\ ~uncaught
  /\ nadds < MaxAdds
  /\ nadds' = nadds + 1
  /\ IF ObjectIdThrows(pid)
       THEN /\ resp' = [op |-> "add", req |-> [id |-> id, matched |-> id \in DOMAIN users],
                        status |-> 500, body |-> ExpressError]
            /\ addq' = addq
       ELSE IF ObjectIdThrows(id)
       THEN /\ resp' = [op |-> "add", req |-> [id |-> id, matched |-> id \in DOMAIN users],
                        status |-> 400, body |-> CastError]
            /\ addq' = addq
       ELSE /\ [id |-> id, ev |-> ScanEvent(pid, now)] \notin addq
            /\ addq' = addq \cup {[id |-> id, ev |-> ScanEvent(pid, now)]}
            /\ resp' = NoResp
  /\ UNCHANGED <<users, now, stats, session, cookie, uncaught>>

\* The store applies the update and the promise resolves: updateOne
\* resolves whether or not a document matched the filter.
AddApply(m) ==
  /\ ~uncaught
  /\ m \in addq
  /\ addq' = addq \ {m}
  /\ users' = IF m.id \in DOMAIN users
                THEN [users EXCEPT ![m.id] = PushAndInc(@, m.ev)]
                ELSE users
  /\ resp' = [op |-> "add", req |-> [id |-> m.id, matched |-> m.id \in DOMAIN users],
              status |-> 201, body |-> [message |-> "added"]]
  /\ UNCHANGED <<now, nadds, stats, session, cookie, uncaught>>

\* The store rejects the update: the catch of the handler answers 400.
AddFail(m) ==
  /\ ~uncaught
  /\ m \in addq
  /\ addq' = addq \ {m}
  /\ resp' = [op |-> "add", req |-> [id |-> m.id, matched |-> m.id \in DOMAIN users],
              status |-> 400, body |-> StoreError]
  /\ UNCHANGED <<users, now, nadds, stats, session, cookie, uncaught>>

-----------------------------------------------------------------------------
(* getStatsAndLastProduct                                                  *)

\* { $match: { _id: userId } }
Match(coll, id) == IF id \in DOMAIN coll THEN {id} ELSE {}

\* $unwind with preserveNullAndEmptyArrays: a document with an empty
\* history gives one row with no event.
UnwindPreserving(doc) ==
  IF doc.history = << >>
    THEN {[i |-> 0, ev |-> [product |-> "", date_scan |-> 0, owner |-> FALSE]]}
    ELSE {[i |-> i, ev |-> doc.history[i]] : i \in DOMAIN doc.history}

\* { $unwind: '$history' }: one row per event of the document, a document
\* with an empty history gives no row.
Unwind(doc) == {[i |-> i, ev |-> doc.history[i]] : i \in DOMAIN doc.history}

IsPermOf(s, rows) ==
  /\ Len(s) = Cardinality(rows)
  /\ {s[i] : i \in DOMAIN s} = rows

\* { $sort: { 'history.date_scan': 1 } }: every order of the rows that is
\* ascending in date_scan; the order of rows of equal date_scan is the
\* store's choice.
SortByDate(rows) ==
  {s \in [1..Cardinality(rows) -> rows] :
     /\ IsPermOf(s, rows)
     /\ \A i \in 1..(Len(s) - 1) : s[i].ev.date_scan <= s[i + 1].ev.date_scan}

\* { $slice: ['$list-history', 1] }
SliceFirst(s) == IF Len(s) = 0 THEN << >> ELSE <<s[1]>>

\* { $slice: ['$list-history', -1] }
SliceLast(s) == IF Len(s) = 0 THEN << >> ELSE <<s[Len(s)]>>

\* { $lookup: { from: 'product', localField: 'history.product', ... } }
Lookup(hist) == {p \in ProductColl : \E i \in DOMAIN hist : hist[i].product = p}

\* The first pipeline: the possible result arrays.
LastScanAgg(coll, id) ==
  IF Match(coll, id) = {} \/ Unwind(coll[id]) = {}
    THEN {<< >>}
    ELSE {<<[_id |-> id,
             number_scan |-> coll[id].number_scan,
             history |-> SliceLast([i \in DOMAIN s |-> s[i].ev]),
             productInfo |-> Lookup(SliceLast([i \in DOMAIN s |-> s[i].ev]))]>> :
           s \in SortByDate(Unwind(coll[id]))}

\* $gte: new Date(new Date().setHours(00, 00, 00)),
\* $lt:  new Date(new Date().setHours(23, 59, 59))
InWindow(d, tlo, thi) == SetHours(tlo, 0, 0, 0) <= d /\ d < SetHours(thi, 23, 59, 59)

\* the second pipeline with a $match that leaves out _id
TodayAggAnyUser(coll, id, tlo, thi) ==
  LET n == Cardinality(UNION {{<<u, r.i>> : r \in {q \in Unwind(coll[u]) :
                                  InWindow(q.ev.date_scan, tlo, thi)}} : u \in DOMAIN coll})
  IN IF n = 0 THEN << >> ELSE <<[total_today |-> n]>>

\* The second pipeline: $unwind, $match on _id and the window, $count.
\* $count gives no document when no row is left.
TodayAgg(coll, id, tlo, thi) ==
  LET rows == IF id \in DOMAIN coll
                THEN {r \in Unwind(coll[id]) : InWindow(r.ev.date_scan, tlo, thi)}
                ELSE {}
  IN IF rows = {} THEN << >> ELSE <<[total_today |-> Cardinality(rows)]>>

NumberScanOf(id) == IF id \in DOMAIN users THEN users[id].number_scan ELSE 0

\* What a getStatsAndLastProduct request met: the history and the
\* number_scan of the user at its first aggregate, the history at its
\* second, and the instant of the second.
StatsReq(id, h1, n1, h2, t) == [id |-> id, h1 |-> h1, n1 |-> n1, h2 |-> h2, t |-> t]

\* The handler up to the first aggregate's answer.
StatsQ1(id) ==
  /\ ~uncaught
  /\ stats.pc = "idle"
  /\ IF ObjectIdThrows(id)
       THEN /\ resp' = [op |-> "stats", req |-> StatsReq(id, << >>, 0, << >>, now),
                        status |-> 500, body |-> ExpressError]
            /\ stats' = stats
       ELSE \E r \in LastScanAgg(users, id) :
            /\ stats' = [pc |-> "q2", id |-> id, r1 |-> r, h1 |-> HistoryOf(id),
                         n1 |-> NumberScanOf(id)]
            /\ resp' = NoResp
  /\ UNCHANGED <<users, now, addq, nadds, session, cookie, uncaught>>

\* The first aggregate is rejected: the outer catch answers 404.
StatsQ1Fail(id) ==
  /\ ~uncaught
  /\ stats.pc = "idle"
  /\ ~ObjectIdThrows(id)
  /\ resp' = [op |-> "stats", req |-> StatsReq(id, HistoryOf(id), NumberScanOf(id), HistoryOf(id), now),
              status |-> 404, body |-> StoreError]
  /\ UNCHANGED <<users, now, addq, nadds, stats, session, cookie, uncaught>>

\* The then-callback of the first aggregate: the window is computed from
\* two readings of the clock (the clock may advance by `d` milliseconds
\* between them),
\* the second aggregate runs, the two arrays are concatenated.
StatsQ2(d) ==
  /\ ~uncaught
  /\ stats.pc = "q2"
  /\ now + d \in Instants
  /\ now' = now + d
  /\ stats' = IdleStats
  /\ resp' = [op |-> "stats",
              req |-> StatsReq(stats.id, stats.h1, stats.n1, HistoryOf(stats.id), now),
              status |-> 200,
              body |-> stats.r1 \o TodayAgg(users, stats.id, now, now + d)]
  /\ UNCHANGED <<users, addq, nadds, session, cookie, uncaught>>

\* The second aggregate is rejected: the inner catch answers 404.
StatsQ2Fail ==
  /\ ~uncaught
  /\ stats.pc = "q2"
  /\ stats' = IdleStats
  /\ resp' = [op |-> "stats",
              req |-> StatsReq(stats.id, stats.h1, stats.n1, HistoryOf(stats.id), now),
              status |-> 404, body |-> StoreError]
  /\ UNCHANGED <<users, now, addq, nadds, session, cookie, uncaught>>

-----------------------------------------------------------------------------
(* getHistoryOfUser, getAllUsers, getInformationOfUser                     *)

GetHistoryOfUser(id) ==
  /\ ~uncaught
  /\ resp' = IF ObjectIdThrows(id)
               THEN [op |-> "history", req |-> [id |-> id], status |-> 500,
                     body |-> ExpressError]
               ELSE [op |-> "history", req |-> [id |-> id], status |-> 200,
                     body |-> IF id \in DOMAIN users
                                THEN <<[_id |-> id, history |-> users[id].history,
                                        productInfo |-> Lookup(users[id].history)]>>
                                ELSE << >>]
  /\ UNCHANGED <<users, now, addq, nadds, stats, session, cookie, uncaught>>

GetAllUsers ==
  /\ ~uncaught
  /\ resp' = [op |-> "all", req |-> [id |-> ""], status |-> 200, body |-> users]
  /\ UNCHANGED <<users, now, addq, nadds, stats, session, cookie, uncaught>>

\* findOne with the projection {fullname, mail, timezone, number_scan,
\* registration_date}; it resolves with null when no document matches.
GetInformationOfUser(id) ==
  /\ ~uncaught
  /\ resp' = IF ObjectIdThrows(id)
               THEN [op |-> "info", req |-> [id |-> id], status |-> 404, body |-> CastError]
               ELSE [op |-> "info", req |-> [id |-> id], status |-> 200,
                     body |-> IF id \in DOMAIN users
                                THEN <<[_id |-> id, mail |-> users[id].mail,
                                        number_scan |-> users[id].number_scan]>>
                                ELSE << >>]
  /\ UNCHANGED <<users, now, addq, nadds, stats, session, cookie, uncaught>>

\* The store rejects the read: 404 for the reads by id, 400 for the list.
ReadFail(op) ==
  /\ ~uncaught
  /\ resp' = [op |-> op, req |-> [id |-> ""],
              status |-> IF op = "all" THEN 400 ELSE 404, body |-> StoreError]
  /\ UNCHANGED <<users, now, addq, nadds, stats, session, cookie, uncaught>>

-----------------------------------------------------------------------------
(* editInformationOfUser, deleteUser                                       *)

\* Request bodies of PUT /:id: any fields of the document.
ScanBodies == {[number_scan |-> 0], [history |-> << >>]}
EditBodies == ScanBodies \cup {[number_scan |-> 5], [password |-> "pw2"], [roles |-> {"admin"}]}

\* updateOne(filter, {...req.body, _id}): the fields of the body replace
\* the fields of the document.
SetFields(doc, body) ==
  [f \in DOMAIN doc |-> IF f \in DOMAIN body THEN body[f] ELSE doc[f]]

EditInformationOfUser(id, body) ==
  /\ ~uncaught
  /\ IF ObjectIdThrows(id)
       THEN /\ users' = users
            /\ resp' = [op |-> "edit", req |-> [id |-> id], status |-> 400,
                        body |-> CastError]
       ELSE /\ users' = IF id \in DOMAIN users
                          THEN [users EXCEPT ![id] = SetFields(@, body)]
                          ELSE users
            /\ resp' = [op |-> "edit", req |-> [id |-> id], status |-> 200,
                        body |-> [message |-> "updated"]]
  /\ UNCHANGED <<now, addq, nadds, stats, session, cookie, uncaught>>

DeleteUser(id) ==
  /\ ~uncaught
  /\ IF ObjectIdThrows(id)
       THEN /\ users' = users
            /\ resp' = [op |-> "delete", req |-> [id |-> id], status |-> 400,
                        body |-> CastError]
       ELSE /\ users' = [u \in DOMAIN users \ {id} |-> users[u]]
            /\ resp' = [op |-> "delete", req |-> [id |-> id], status |-> 200,
                        body |-> [message |-> "deleted"]]
  /\ UNCHANGED <<now, addq, nadds, stats, session, cookie, uncaught>>

\* The store rejects the write: the catch of either handler answers 400.
WriteFail(op, id) ==
  /\ ~uncaught
  /\ resp' = [op |-> op, req |-> [id |-> id], status |-> 400, body |-> StoreError]
  /\ UNCHANGED <<users, now, addq, nadds, stats, session, cookie, uncaught>>

-----------------------------------------------------------------------------
(* login                                                                   *)

\* User.findOne({ mail }): the document with that mail, if any
FindByMail(coll, mail) == {id \in DOMAIN coll : coll[id].mail = mail}

\* bcrypt.compare(password, hash) resolves with whether the hash is the
\* hash of the password; it rejects when the password is missing.
BcryptRejects(pw) == pw = NoPassword
\* a comparison that accepts every password
BcryptCompareAny(pw, stored) == TRUE
BcryptCompare(pw, stored) == stored = Hash(pw)

\* req.session.user = { userId, mail, roles }
SessionUser(id, doc) == [userId |-> id, mail |-> doc.mail, roles |-> doc.roles]

\* what the request met: the user its mail names and that user's stored hash
LoginReq(mail, pw, lookup) ==
  LET found == FindByMail(users, mail)
  IN [mail |-> mail, password |-> pw, lookup |-> lookup,
      matchId |-> IF found = {} THEN "" ELSE CHOOSE id \in found : TRUE,
      stored |-> IF found = {} THEN "" ELSE users[CHOOSE id \in found : TRUE].password,
      roles |-> IF found = {} THEN {} ELSE users[CHOOSE id \in found : TRUE].roles]

Login(mail, pw) ==
  LET r == LoginReq(mail, pw, "ok")
  IN /\ ~uncaught
     /\ IF r.matchId = ""
          THEN /\ resp' = [op |-> "login", req |-> r, status |-> 401,
                           body |-> [error |-> "L'utilisateur n'existe pas"]]
               /\ UNCHANGED <<session, cookie>>
          ELSE IF BcryptRejects(pw)
          THEN /\ resp' = [op |-> "login", req |-> r, status |-> 500,
                           body |-> [error |-> "BcryptError"]]
               /\ UNCHANGED <<session, cookie>>
          ELSE IF ~BcryptCompare(pw, r.stored)
          THEN /\ resp' = [op |-> "login", req |-> r, status |-> 401,
                           body |-> [error |-> "Mot de passe incorrect"]]
               /\ UNCHANGED <<session, cookie>>
          ELSE /\ session' = [user |-> SessionUser(r.matchId, users[r.matchId]),
                              active |-> TRUE]
               /\ cookie' = TRUE
               /\ resp' = [op |-> "login", req |-> r, status |-> 200,
                           body |-> [message |-> "Utilisateur authentifie",
                                     user |-> [userId |-> r.matchId, role |-> r.roles]]]
     /\ UNCHANGED <<users, now, addq, nadds, stats, uncaught>>

\* findOne is rejected: the outer catch answers 500.
LoginFail(mail, pw) ==
  /\ ~uncaught
  /\ resp' = [op |-> "login", req |-> LoginReq(mail, pw, "rejected"), status |-> 500,
              body |-> StoreError]
  /\ UNCHANGED <<users, now, addq, nadds, stats, session, cookie, uncaught>>

-----------------------------------------------------------------------------
(* logout                                                                  *)

\* How the session store's destroy reports: no error, an error passed to
\* the callback while destroy is still running, an error passed to the
\* callback in a later turn of the event loop.
DestroyOutcomes == {"ok", "errSync", "errAsync"}

HasUser == session.user # NoSessionUser

\* a destroy that leaves the session in the store
KeepSession(s) == s

\* req.session.destroy: the session leaves the store, and the next request
\* of the client starts a session that holds no user.
DestroySession(s) == [user |-> NoSessionUser, active |-> FALSE]

\* if(!req.session.user) return res.status(400)
LogoutNoUser ==
  /\ ~uncaught
  /\ ~HasUser
  /\ resp' = [op |-> "logout", req |-> [hadUser |-> FALSE, destroy |-> "none"],
              status |-> 400, body |-> [error |-> "Deconnexion impossible"]]
  /\ UNCHANGED <<users, now, addq, nadds, stats, session, cookie, uncaught>>

\* try { req.session.destroy(err => { if(err) throw err; clearCookie; 200 }) }
\* catch (err) { 422 }: a throw of the callback reaches the catch only when
\* the callback runs inside the destroy call; thrown in a later turn, it is
\* an uncaught exception and the request is left without a response.
LogoutDestroy(o) ==
  /\ ~uncaught
  /\ HasUser
  /\ CASE o = "ok" ->
            /\ session' = DestroySession(session)
            /\ cookie' = FALSE
            /\ uncaught' = FALSE
            /\ resp' = [op |-> "logout", req |-> [hadUser |-> TRUE, destroy |-> o],
                        status |-> 200, body |-> [message |-> "Utilisateur deconnecte"]]
       [] o = "errSync" ->
            /\ UNCHANGED <<session, cookie, uncaught>>
            /\ resp' = [op |-> "logout", req |-> [hadUser |-> TRUE, destroy |-> o],
                        status |-> 422, body |-> [err |-> "DestroyError"]]
       [] OTHER ->
            /\ UNCHANGED <<session, cookie>>
            /\ uncaught' = TRUE
            /\ resp' = [op |-> "logout", req |-> [hadUser |-> TRUE, destroy |-> o],
                        status |-> 0, body |-> << >>]
  /\ UNCHANGED <<users, now, addq, nadds, stats>>

-----------------------------------------------------------------------------
Init ==
  /\ users = [id \in UserIds |-> InitDoc(id)]
  /\ now = 0
  /\ addq = {}
  /\ nadds = 0
  /\ stats = IdleStats
  /\ session = [user |-> NoSessionUser, active |-> FALSE]
  /\ cookie = FALSE
  /\ resp = NoResp
  /\ uncaught = FALSE

\* Scan and statistics requests for the ids of `ids`.
NextScan(ids) ==
  \/ Tick
  \/ \E id \in ids, pid \in BodyProductIds : AddReq(id, pid)
  \/ \E m \in addq : AddApply(m)
  \/ \E m \in addq : AddFail(m)
  \/ \E id \in ids : StatsQ1(id)
  \/ \E id \in ids : StatsQ1Fail(id)
  \/ \E d \in {0, 1} : StatsQ2(d)
  \/ StatsQ2Fail

NextReads(ids) ==
  \/ \E id \in ids : GetHistoryOfUser(id)
  \/ GetAllUsers
  \/ \E id \in ids : GetInformationOfUser(id)
  \/ \E op \in {"history", "all", "info"} : ReadFail(op)

\* Edit and delete requests for the ids of `ids`, with the bodies of `bodies`.
NextWrites(ids, bodies) ==
  \/ \E id \in ids, body \in bodies : EditInformationOfUser(id, body)
  \/ \E id \in ids : DeleteUser(id)
  \/ \E op \in {"edit", "delete"}, id \in ids : WriteFail(op, id)

NextAuth ==
  \/ \E mail \in Mails, pw \in Passwords \cup {NoPassword} : Login(mail, pw)
  \/ \E mail \in Mails, pw \in Passwords \cup {NoPassword} : LoginFail(mail, pw)
  \/ LogoutNoUser
  \/ \E o \in DestroyOutcomes : LogoutDestroy(o)

\* Scans and statistics of every id: no request edits or deletes a user.
SpecScan == Init /\ [][NextScan(ReqIds)]_vars

\* Scans and statistics of one user, of an id that names no user and of a
\* malformed id, with the requests that edit or delete that user.
StoreIds == {"u1", GhostId, BadId}
SpecStore ==
  Init /\ [][NextScan(StoreIds) \/ NextWrites({"u1"}, ScanBodies)]_vars

\* Sessions and reads, with the requests that edit or delete a user.
SpecAuth ==
  Init /\ [][NextAuth \/ NextReads(ReqIds) \/ NextWrites(ReqIds, EditBodies)]_vars

-----------------------------------------------------------------------------
(* Properties.                                                             *)

StatsAnswered == resp.op = "stats" /\ resp.status = 200
\* the elements of a 200 payload: those of the first pipeline carry
\* `history`, the one of the second carries `total_today`
LastScanElems(body) == {i \in DOMAIN body : "history" \in DOMAIN body[i]}
CountElems(body) == {i \in DOMAIN body : "total_today" \in DOMAIN body[i]}
TotalToday(body) ==
  IF CountElems(body) = {} THEN 0
  ELSE body[CHOOSE i \in CountElems(body) : TRUE].total_today
IsMaxEventOf(e, h) ==
  /\ \E i \in DOMAIN h : h[i] = e
  /\ \A j \in DOMAIN h : h[j].date_scan <= e.date_scan

\* C1: when only addProductInHistory writes the users, number_scan equals
\* the length of history for every user in every reachable state, whatever
\* the order in which the store applies the updates of concurrent requests.
C1_CounterEqualsLength ==
  \A id \in DOMAIN users : users[id].number_scan = Len(users[id].history)

\* two updates of one user were applied in the reverse of the order in
\* which their requests read the clock
C1_Witness ==
  \E id \in DOMAIN users :
    /\ users[id].number_scan = 2
    /\ Len(users[id].history) = 2
    /\ users[id].history[1].date_scan > users[id].history[2].date_scan

\* C2: for a user whose history is not empty at the first aggregate, the
\* first element of the 200 payload holds exactly one event, that event is
\* an event of the history and no event of the history has a later
\* date_scan, whatever the stored order of the history.
C2_LastScanIsMax ==
  (StatsAnswered /\ resp.req.h1 # << >>) =>
    /\ Len(resp.body) >= 1
    /\ 1 \in LastScanElems(resp.body)
    /\ Len(resp.body[1].history) = 1
    /\ IsMaxEventOf(resp.body[1].history[1], resp.req.h1)

\* the history is stored out of order and the event returned is its first
C2_Witness ==
  /\ StatsAnswered
  /\ Len(resp.req.h1) = 2
  /\ resp.req.h1[1].date_scan > resp.req.h1[2].date_scan
  /\ resp.body[1].history = <<resp.req.h1[1]>>

\* C3: total_today counts every event of the requested user stamped at the
\* local midnight of the execution day, and counts only events of that user
\* stamped on the execution day and not at its 23:59:59.999.
C3_TodayWindow ==
  StatsAnswered =>
    LET h == resp.req.h2
        t == resp.req.t
        atMidnight == {i \in DOMAIN h : h[i].date_scan = DayStart(t)}
        inDay == {i \in DOMAIN h : /\ DayOf(h[i].date_scan) = DayOf(t)
                                   /\ h[i].date_scan # DayEnd(t)}
    IN /\ Cardinality(atMidnight) <= TotalToday(resp.body)
       /\ TotalToday(resp.body) <= Cardinality(inDay)

LoginMatched == resp.req.matchId # ""
LoginVerifies ==
  /\ LoginMatched
  /\ resp.req.password # NoPassword
  /\ resp.req.stored = Hash(resp.req.password)
LoginPayloadOk ==
  /\ resp.body.user = [userId |-> resp.req.matchId, role |-> resp.req.roles]
  /\ DOMAIN resp.body = {"message", "user"}
  /\ session.user = [userId |-> resp.req.matchId, mail |-> resp.req.mail,
                     roles |-> resp.req.roles]

\* C4 as stated: a login is answered 200 with the id and the roles of the
\* user and without the hash when the mail matches a user and the password
\* verifies, 401 when the mail matches a user and the password does not
\* verify, 401 when the mail matches no user.
C4_LoginOutcomes ==
  resp.op = "login" =>
    /\ LoginVerifies => (resp.status = 200 /\ LoginPayloadOk)
    /\ (LoginMatched /\ ~LoginVerifies) => resp.status = 401
    /\ ~LoginMatched => resp.status = 401

C4_StateAmended ==
  resp.op = "login" =>
    IF resp.req.lookup = "rejected" THEN resp.status = 500
    ELSE IF ~LoginMatched THEN resp.status = 401
    ELSE IF resp.req.password = NoPassword THEN resp.status = 500
    ELSE IF ~LoginVerifies THEN resp.status = 401
    ELSE resp.status = 200 /\ LoginPayloadOk

\* C4 amended: a login is answered 500 when the lookup is rejected, 401 when
\* the mail matches no user, 500 when the mail matches a user and the
\* request carries no password, 401 when the password does not verify, and
\* 200 with the id and the roles of the user and without the hash when it
\* verifies; a login that is not answered 200 leaves the session as it was,
\* one that is answered 200 records the user in the session.
C4_LoginOutcomesAmended ==
  /\ []C4_StateAmended
  /\ [][(resp'.op = "login" /\ resp'.status # 200) => session' = session]_vars

\* a user whose password verifies was answered 200 after a failed attempt
C4_Witness ==
  /\ resp.op = "login"
  /\ resp.status = 200
  /\ resp.req.matchId = "u2"
  /\ session.user.userId = "u2"
  /\ cookie

\* C5 as stated: a logout on a session that holds no user is answered with
\* an error, a logout on a session that holds a user destroys the session,
\* clears the cookie and is answered 200.
C5_Logout ==
  resp.op = "logout" =>
    IF resp.req.hadUser
      THEN resp.status = 200 /\ session.user = NoSessionUser /\ ~cookie
      ELSE resp.status >= 400

C5_StateAmended ==
  resp.op = "logout" =>
    IF ~resp.req.hadUser THEN resp.status = 400
    ELSE IF resp.req.destroy = "ok"
      THEN /\ resp.status = 200
           /\ session.user = NoSessionUser
           /\ ~session.active
           /\ ~cookie
      ELSE /\ resp.status # 200
           /\ session.user # NoSessionUser
           /\ cookie

\* C5 amended: a logout on a session that holds no user is answered 400 and
\* changes nothing; a logout on a session that holds a user, when the
\* destroy step reports no failure, destroys the session, clears the cookie
\* and is answered 200, and when the destroy step reports a failure is not
\* answered 200 and keeps the session and the cookie; once a session holds
\* no user, every logout is answered 400 and only a login answered 200
\* makes it hold a user again.
C5_LogoutAmended ==
  /\ []C5_StateAmended
  /\ [][/\ (resp'.op = "logout" /\ session.user = NoSessionUser) =>
             (resp'.status = 400 /\ UNCHANGED <<session, cookie, users>>)
        /\ (session.user = NoSessionUser /\ session'.user # NoSessionUser) =>
             (resp'.op = "login" /\ resp'.status = 200)]_vars

\* a logout that destroyed the session of a logged-in user
C5_Witness ==
  /\ resp.op = "logout"
  /\ resp.status = 200
  /\ resp.req.hadUser
  /\ session.user = NoSessionUser
  /\ ~cookie

\* C6: an addProductInHistory request whose id matches no user is answered
\* with a failure status, never with the success acknowledgement.
C6_UnknownUserFails ==
  (resp.op = "add" /\ ~resp.req.matched) => (resp.status >= 400 /\ resp.status # 201)

\* C7: the number_scan and the history of an existing user change only in
\* a step of addProductInHistory, and number_scan never decreases.
C7_OnlyAppendWrites ==
  [][\A id \in DOMAIN users \cap DOMAIN users' :
       /\ users'[id].number_scan >= users[id].number_scan
       /\ (\/ users'[id].number_scan # users[id].number_scan
           \/ users'[id].history # users[id].history) => resp'.op = "add"]_vars

StatsOnEmpty == resp.op = "stats" /\ resp.req.h1 = << >> /\ resp.req.h2 = << >>

\* C8 as stated: for a user whose history is empty and for an id that
\* matches no user, the request is answered 200 with no last-scan element
\* and with no count entry or a total_today of 0.
C8_EmptyHistory ==
  StatsOnEmpty =>
    /\ resp.status = 200
    /\ LastScanElems(resp.body) = {}
    /\ TotalToday(resp.body) = 0

\* C8 amended: for a user whose history is empty and for a well-formed id
\* that matches no user, the request is answered 200 with an empty payload
\* unless the store rejects one of the two aggregates, and then it is
\* answered 404; a malformed id is answered 500.
C8_EmptyHistoryAmended ==
  StatsOnEmpty =>
    IF resp.req.id = BadId THEN resp.status = 500
    ELSE IF resp.status = 200 THEN resp.body = << >>
    ELSE resp.status = 404 /\ resp.body = StoreError

\* an existing user with an empty history was answered 200
C8_Witness ==
  /\ StatsOnEmpty
  /\ resp.status = 200
  /\ resp.req.id \in DOMAIN users
  /\ users[resp.req.id].history = << >>
  /\ resp.body = << >>

\* C9: no logout ends in an uncaught exception, and a logout whose destroy
\* step reports a failure is answered 422 with the cookie kept.
C9_DestroyFailureAnswered ==
  /\ ~uncaught
  /\ (resp.op = "logout" /\ resp.req.hadUser /\ resp.req.destroy # "ok") =>
       (resp.status = 422 /\ cookie)

\* C10 as stated: in a 200 payload with both elements the total_today of
\* the second element does not exceed the number_scan of the first, and the
\* last-scan event of the first is a most recent event of the history the
\* count was taken from.
C10_OneSnapshot ==
  (StatsAnswered /\ LastScanElems(resp.body) # {} /\ CountElems(resp.body) # {}) =>
    /\ TotalToday(resp.body) <= resp.body[1].number_scan
    /\ IsMaxEventOf(resp.body[1].history[1], resp.req.h2)

\* C10 amended: each element of a 200 payload describes the document as its
\* own aggregate met it: the first holds the number_scan of the document
\* and a most recent event of its history at the first aggregate, the
\* total_today of the second counts events of the history at the second
\* aggregate and does not exceed its length.
C10_TwoSnapshots ==
  StatsAnswered =>
    /\ TotalToday(resp.body) <= Len(resp.req.h2)
    /\ LastScanElems(resp.body) # {} =>
         /\ resp.body[1].number_scan = resp.req.n1
         /\ IsMaxEventOf(resp.body[1].history[1], resp.req.h1)

\* a scan was applied between the two aggregates and total_today exceeds
\* the number_scan of the first element
C10_Witness ==
  /\ StatsAnswered
  /\ LastScanElems(resp.body) # {}
  /\ CountElems(resp.body) # {}
  /\ Len(resp.req.h2) > Len(resp.req.h1)
  /\ TotalToday(resp.body) > resp.body[1].number_scan
====
